---------------------------- MODULE Spec2Model ----------------------------
(***************************************************************************)
(* Model of the auth service (Bappoz/auth-rust): the validators, the       *)
(* Argon2 wrapper, the JWT wrapper, the in-memory user repository and the  *)
(* register / login handlers, as a state machine.                          *)
(*                                                                         *)
(* Strings are sequences of one-character strings, so that the validators  *)
(* can be computed the way the regular expressions compute them.           *)
(***************************************************************************)
EXTENDS Naturals, Integers, Sequences, FiniteSets, TLC

(***************************************************************************)
(* Characters                                                              *)
(***************************************************************************)
Lower == {"a","b","c","d","e","f","g","h","i","j","k","l","m",
          "n","o","p","q","r","s","t","u","v","w","x","y","z"}

Upper == {"A","B","C","D","E","F","G","H","I","J","K","L","M",
          "N","O","P","Q","R","S","T","U","V","W","X","Y","Z"}

Digit == {"0","1","2","3","4","5","6","7","8","9"}

Alnum == Lower \cup Upper \cup Digit

\* special_chars of validate_password
SpecialChars == {"!","@","#","$","%","^","&","*","(",")","_","+","-","=",
                 "[","]","{","}","|",";",":",",",".","<",">","?"}

\* [a-zA-Z0-9._%+-] of the e-mail pattern
EmailLocalClass == Alnum \cup {".","_","%","+","-"}

\* [a-zA-Z0-9.-] of the e-mail pattern
EmailDomainClass == Alnum \cup {".","-"}

\* [a-zA-Z0-9_-] of the username pattern
UsernameClass == Alnum \cup {"_","-"}

\* characters outside ASCII, written by their code points: e acute (a
\* lowercase letter), E acute (an uppercase letter) and the fraction one
\* half (a number that is no digit); each takes two bytes in UTF-8
LowerEAcute == "U+00E9"
UpperEAcute == "U+00C9"
OneHalf == "U+00BD"
NonAscii == {LowerEAcute, UpperEAcute, OneHalf}

\* char::is_uppercase, char::is_lowercase and char::is_numeric follow the
\* Unicode properties, on the characters of this model
IsUppercase == Upper \cup {UpperEAcute}
IsLowercase == Lower \cup {LowerEAcute}
IsNumeric == Digit \cup {OneHalf}

\* char::len_utf8
Utf8Len(c) == IF c \in NonAscii THEN 2 ELSE 1

\* str::len() counts the bytes of the UTF-8 encoding, not the characters:
\* one byte for every character and one more for each further byte of it
ByteLen(s) ==
    Len(s) + Cardinality({k \in 1..Len(s) : Utf8Len(s[k]) >= 2})
           + Cardinality({k \in 1..Len(s) : Utf8Len(s[k]) >= 3})
           + Cardinality({k \in 1..Len(s) : Utf8Len(s[k]) >= 4})

AllIn(s, lo, hi, class) == \A k \in lo..hi : s[k] \in class

(***************************************************************************)
(* errors.rs                                                               *)
(***************************************************************************)
NoMsg == <<>>

InvalidCredentials == [kind |-> "InvalidCredentials", msg |-> NoMsg]
UserAlreadyExists  == [kind |-> "UserAlreadyExists",  msg |-> NoMsg]
DatabaseError      == [kind |-> "DatabaseError",      msg |-> NoMsg]
InternalError      == [kind |-> "InternalError",      msg |-> NoMsg]
ValidationError(m) == [kind |-> "ValidationError",    msg |-> m]

\* Ok(()) of the validators
OkUnit == [kind |-> "Ok", msg |-> NoMsg]

\* a token that is no token: the body of an error response carries none
NoToken == [header |-> "none", claims |-> [sub |-> <<>>, exp |-> 0, iat |-> 0],
            sig |-> <<>>]

\* AuthError::into_response: (status, {"error": message})
IntoResponse(err) ==
    CASE err.kind = "InvalidCredentials" ->
            [status |-> 401, error |-> <<"Invalid credentials">>, token |-> NoToken]
      [] err.kind = "UserAlreadyExists" ->
            [status |-> 409, error |-> <<"User already exists">>, token |-> NoToken]
      [] err.kind = "UserNotFound" ->
            [status |-> 404, error |-> <<"User not found">>, token |-> NoToken]
      [] err.kind = "InvalidToken" ->
            [status |-> 401, error |-> <<"Invalid token">>, token |-> NoToken]
      [] err.kind = "TokenExpired" ->
            [status |-> 401, error |-> <<"Token expired">>, token |-> NoToken]
      [] err.kind = "DatabaseError" ->
            [status |-> 500, error |-> <<"Database error">>, token |-> NoToken]
      [] err.kind = "InternalError" ->
            [status |-> 500, error |-> <<"Internal server error">>, token |-> NoToken]
      [] err.kind = "ValidationError" ->
            [status |-> 400, error |-> err.msg, token |-> NoToken]

\* Ok(Json(LoginResponse { token }))
OkResponse(token) == [status |-> 200, error |-> NoMsg, token |-> token]

(***************************************************************************)
(* models/validation.rs                                                    *)
(***************************************************************************)
MaxEmailLen == 255
MinUsernameLen == 3
MaxUsernameLen == 50
MinPasswordLen == 8

\* ^[a-zA-Z0-9._%+-]+@[a-zA-Z0-9.-]+\.[a-zA-Z]{2,}$
EmailRegexMatch(s) ==
    \E at \in 2..Len(s) :
        /\ s[at] = "@"
        /\ AllIn(s, 1, at - 1, EmailLocalClass)
        /\ \E dot \in (at + 2)..(Len(s) - 2) :
             /\ s[dot] = "."
             /\ AllIn(s, at + 1, dot - 1, EmailDomainClass)
             /\ AllIn(s, dot + 1, Len(s), Lower \cup Upper)

\* a variant without the check of the length
validate_email_NoMaxLen(email) ==
    IF ~EmailRegexMatch(email)
    THEN ValidationError(<<"Invalid email format!">>)
    ELSE OkUnit

validate_email(email) ==
    IF ~EmailRegexMatch(email)
    THEN ValidationError(<<"Invalid email format!">>)
    ELSE IF ByteLen(email) > MaxEmailLen
    THEN ValidationError(<<"Email is to long (max 255 characters)">>)
    ELSE OkUnit

\* a variant of the pattern that lets any character of the class stand first
\* and last
UsernameRegexMatch_AnyEdge(s) ==
    /\ Len(s) >= 2
    /\ AllIn(s, 1, Len(s), UsernameClass)

\* ^[a-zA-Z0-9][a-zA-Z0-9_-]*[a-zA-Z0-9]$
UsernameRegexMatch(s) ==
    /\ Len(s) >= 2
    /\ s[1] \in Alnum
    /\ AllIn(s, 2, Len(s) - 1, UsernameClass)
    /\ s[Len(s)] \in Alnum

validate_username(username) ==
    IF ByteLen(username) < MinUsernameLen
    THEN ValidationError(<<"Username must be at least 3 characters long">>)
    ELSE IF ByteLen(username) > MaxUsernameLen
    THEN ValidationError(<<"Username is to long (max 50 characters)">>)
    ELSE IF ~UsernameRegexMatch(username)
    THEN ValidationError(<<"Username can only contain letters, numbers, underscore and hyphen. Cannot start or end with special characters">>)
    ELSE OkUnit

HasAny(s, class) == \E k \in 1..Len(s) : s[k] \in class

\* a variant that counts the characters of the password, not its bytes, and
\* takes only 0-9 for numbers
PasswordErrors_ByChars(password) ==
       (IF Len(password) < MinPasswordLen
        THEN <<"at least 8 characters">> ELSE <<>>)
    \o (IF ~HasAny(password, IsUppercase)
        THEN <<"at least one uppercase letter (A-Z)">> ELSE <<>>)
    \o (IF ~HasAny(password, IsLowercase)
        THEN <<"at least one lowercase letter (a-z)">> ELSE <<>>)
    \o (IF ~HasAny(password, Digit)
        THEN <<"at least one number (0-9)">> ELSE <<>>)
    \o (IF ~HasAny(password, SpecialChars)
        THEN <<"at least one special character">> ELSE <<>>)

\* the errors vector of validate_password, in push order
PasswordErrors(password) ==
       (IF ByteLen(password) < MinPasswordLen
        THEN <<"at least 8 characters">> ELSE <<>>)
    \o (IF ~HasAny(password, IsUppercase)
        THEN <<"at least one uppercase letter (A-Z)">> ELSE <<>>)
    \o (IF ~HasAny(password, IsLowercase)
        THEN <<"at least one lowercase letter (a-z)">> ELSE <<>>)
    \o (IF ~HasAny(password, IsNumeric)
        THEN <<"at least one number (0-9)">> ELSE <<>>)
    \o (IF ~HasAny(password, SpecialChars)
        THEN <<"at least one special character">> ELSE <<>>)

\* errors.join(", ")
RECURSIVE Join(_)
Join(items) ==
    IF Len(items) = 0 THEN <<>>
    ELSE IF Len(items) = 1 THEN items
    ELSE <<Head(items), ", ">> \o Join(Tail(items))

validate_password(password) ==
    IF PasswordErrors(password) # <<>>
    THEN ValidationError(<<"Password must contain: ">> \o Join(PasswordErrors(password)))
    ELSE OkUnit


(***************************************************************************)
(* Bounded inputs                                                          *)
(***************************************************************************)
\* "bob", "ann", and "al" (too short)
Usernames == {<<"b","o","b">>, <<"a","n","n">>, <<"a","l">>}

\* "a@b.co", "c@d.io", and "a@b" (no TLD)
Emails == {<<"a","@","b",".","c","o">>, <<"c","@","d",".","i","o">>,
           <<"a","@","b">>}

\* "Str0ng#P" and "weak" for registration
Passwords == {<<"S","t","r","0","n","g","#","P">>, <<"w","e","a","k">>}

\* "Str0ng#P" and "Abcdef1!" for login
LoginPasswords == {<<"S","t","r","0","n","g","#","P">>,
                   <<"A","b","c","d","e","f","1","!">>}

Salts == {"s1", "s2"}

Secrets == {"k1", "k2"}

\* request slots: requests that can be in the server at the same time
NumReqs == 2
Reqs == 1..NumReqs

\* the store holds at most MaxUsers records
MaxUsers == 3

(***************************************************************************)
(* State                                                                   *)
(***************************************************************************)
VARIABLES
    users,       \* InMemoryUserRepository.users: id string -> User
    nextId,      \* the Uuid::new_v4() generator: the next identifier it yields
    jwt_secret,  \* AppState.jwt_secret
    now,         \* Utc::now().timestamp(), in seconds
    req,         \* the requests being handled: locals and position of each handler
    tokens,      \* tokens that were issued and are held by clients
    vt,          \* the verification call in progress and its result
    ticks,       \* how often the clock was advanced
    backend,     \* AppState.user_repo: the UserRepository implementation in use
    table,       \* the users table of the SQL backend: id string -> row
    last,        \* the last direct repository call and what each backend returned
    vc,          \* a call of a validator: its input and its result
    mutex        \* the Mutex around InMemoryUserRepository.users

vars == <<users, nextId, jwt_secret, now, req, tokens, vt, ticks, backend, table,
          last, vc, mutex>>

(***************************************************************************)
(* auth/crypto.rs                                                          *)
(***************************************************************************)
\* the Argon2id digest of a password under a salt: a function of both
Argon2(password, salt) == <<password, salt>>

NoHash == [phc |-> FALSE, alg |-> "none", salt |-> "none", digest |-> <<>>]

\* Result<String, Error>: Ok(password_hash.to_string()), a PHC string with
\* algorithm, salt and digest. Argon2::default() with a salt from
\* SaltString::generate returns no error for a password of a request body.
hash_password(password, salt) ==
    [ok |-> TRUE,
     val |-> [phc |-> TRUE, alg |-> "argon2id", salt |-> salt,
              digest |-> Argon2(password, salt)]]

\* a variant that accepts every password
verify_password_AcceptsAll(hash, password) == [ok |-> TRUE, val |-> TRUE]

\* Result<bool, Error>: Err when PasswordHash::new cannot parse the string,
\* else Ok(argon2.verify_password(..).is_ok())
verify_password(hash, password) ==
    IF ~hash.phc
    THEN [ok |-> FALSE, val |-> FALSE]
    ELSE [ok |-> TRUE,
          val |-> hash.alg = "argon2id" /\ hash.digest = Argon2(password, hash.salt)]

(***************************************************************************)
(* auth/jwt.rs                                                             *)
(***************************************************************************)
\* Duration::hours(24), in seconds
TokenLifetime == 86400

\* Validation::default().leeway of jsonwebtoken, in seconds
Leeway == 60

\* the HMAC-SHA256 signature of header and claims under a secret; encode
\* with Header::default() and EncodingKey::from_secret returns no error, so
\* the expect of create_token does not panic
Hmac(secret, header, claims) == <<secret, header, claims>>

\* a variant whose tokens last one hour
create_token_OneHour(user_id, secret) ==
    LET claims == [sub |-> user_id, exp |-> now + 3600, iat |-> now]
    IN  [header |-> "HS256", claims |-> claims,
         sig |-> Hmac(secret, "HS256", claims)]

create_token(user_id, secret) ==
    LET claims == [sub |-> user_id, exp |-> now + TokenLifetime, iat |-> now]
    IN  [header |-> "HS256", claims |-> claims,
         sig |-> Hmac(secret, "HS256", claims)]

\* jsonwebtoken::decode::<Claims>(token, key, &Validation::default()) at the
\* current time: the algorithm, then the signature, then the expiry
Decode(token, secret) ==
    IF token.header # "HS256"
    THEN [ok |-> FALSE, err |-> "InvalidToken", claims |-> NoToken.claims]
    ELSE IF token.sig # Hmac(secret, token.header, token.claims)
    THEN [ok |-> FALSE, err |-> "InvalidSignature", claims |-> NoToken.claims]
    ELSE IF token.claims.exp < now - Leeway
    THEN [ok |-> FALSE, err |-> "ExpiredSignature", claims |-> NoToken.claims]
    ELSE [ok |-> TRUE, err |-> "none", claims |-> token.claims]

validate_token(token, secret) == Decode(token, secret)

(***************************************************************************)
(* auth/extractor.rs                                                       *)
(***************************************************************************)
\* no Authorization header
NoHeader == [present |-> FALSE, text |-> FALSE, scheme |-> "", token |-> NoToken]

\* Authorization: Bearer <token>
BearerHeader(token) ==
    [present |-> TRUE, text |-> TRUE, scheme |-> "Bearer ", token |-> token]

\* Authorization: Basic <token>: a value that does not start with "Bearer "
BasicHeader(token) ==
    [present |-> TRUE, text |-> TRUE, scheme |-> "Basic ", token |-> token]

\* a string that is no JWT: not three base64url segments
MalformedToken == [header |-> "malformed", claims |-> NoToken.claims, sig |-> <<>>]

\* an Authorization header whose bytes HeaderValue::to_str rejects
OpaqueHeader ==
    [present |-> TRUE, text |-> FALSE, scheme |-> "Bearer ", token |-> MalformedToken]

\* the rejection of from_request_parts: (StatusCode::UNAUTHORIZED, message)
Rejection(msg) == [ok |-> FALSE, status |-> 401, msg |-> msg, user_id |-> <<>>]

\* a variant that tells an expired token from an invalid one
from_request_parts_TellsExpired(header) ==
    IF ~header.present \/ ~header.text
    THEN Rejection("Missing Token")
    ELSE IF header.scheme # "Bearer "
    THEN Rejection("Invalid Token Format")
    ELSE IF ~Decode(header.token, jwt_secret).ok
    THEN IF Decode(header.token, jwt_secret).err = "ExpiredSignature"
         THEN Rejection("Token expired")
         ELSE Rejection("Invalid Token or expired")
    ELSE [ok |-> TRUE, status |-> 200, msg |-> "",
          user_id |-> Decode(header.token, jwt_secret).claims.sub]

\* a variant that accepts the token of any authorization scheme
from_request_parts_AnyScheme(header) ==
    IF ~header.present \/ ~header.text
    THEN Rejection("Missing Token")
    ELSE IF ~Decode(header.token, jwt_secret).ok
    THEN Rejection("Invalid Token or expired")
    ELSE [ok |-> TRUE, status |-> 200, msg |-> "",
          user_id |-> Decode(header.token, jwt_secret).claims.sub]

\* Result<AuthUser, (StatusCode, String)>
from_request_parts(header) ==
    IF ~header.present \/ ~header.text
    THEN Rejection("Missing Token")
    ELSE IF header.scheme # "Bearer "
    THEN Rejection("Invalid Token Format")
    ELSE IF ~Decode(header.token, jwt_secret).ok
    THEN Rejection("Invalid Token or expired")
    ELSE [ok |-> TRUE, status |-> 200, msg |-> "",
          user_id |-> Decode(header.token, jwt_secret).claims.sub]

\* main.rs, protect_handler: the body of the 200 response
protect_handler(user) == <<"Acesso concedido para o usuario: ", user.user_id>>

(***************************************************************************)
(* models/user.rs, db/memory_connection.rs                                 *)
(***************************************************************************)
\* Option<User>::None
NoUser == [id |-> 0, username |-> <<>>, email |-> <<>>, password_hash |-> NoHash,
           created_at |-> 0, updated_at |-> 0, is_active |-> FALSE]

\* Uuid::to_string
UuidToString(id) == <<"uuid", id>>

\* HashMap::new()
EmptyStore == [k \in {} |-> NoUser]

Stored(store) == {store[k] : k \in DOMAIN store}

\* a variant that stores the record as inactive
NewUser_Inactive(id, username, email, password_hash) ==
    [id |-> id, username |-> username, email |-> email,
     password_hash |-> password_hash,
     created_at |-> now, updated_at |-> now, is_active |-> FALSE]

\* the record create builds
NewUser(id, username, email, password_hash) ==
    [id |-> id, username |-> username, email |-> email,
     password_hash |-> password_hash,
     created_at |-> now, updated_at |-> now, is_active |-> TRUE]

\* a variant that empties the map before it inserts
Insert_Cleared(store, key, user) == [k \in {key} |-> user]

\* users.insert(id.to_string(), new_user.clone())
Insert(store, key, user) ==
    [k \in DOMAIN store \cup {key} |-> IF k = key THEN user ELSE store[k]]

\* what Iterator::find can return: any match, in the map's iteration order,
\* or None when there is none. The lookups of the in-memory repository
\* always return Ok, so the ? of the handlers never returns there.
Found(matches) == IF matches = {} THEN {NoUser} ELSE matches

find_by_email(store, email) ==
    Found({u \in Stored(store) : u.email = email})

find_by_username(store, username) ==
    Found({u \in Stored(store) : u.username = username})

find_by_id(store, id) ==
    IF UuidToString(id) \in DOMAIN store THEN store[UuidToString(id)] ELSE NoUser

\* a variant of the in-memory create that looks for the username and the
\* email before it inserts
InMemoryUserRepository_create_Checked(store, id, user, password_hash) ==
    LET new_user == NewUser(id, user.username, user.email, password_hash)
    IN  IF \E u \in Stored(store) :
              u.username = user.username \/ u.email = user.email
        THEN [ok |-> FALSE, err |-> UserAlreadyExists, user |-> NoUser,
              store |-> store]
        ELSE [ok |-> TRUE, err |-> OkUnit, user |-> new_user,
              store |-> Insert(store, UuidToString(id), new_user)]

\* a variant of the in-memory create whose map is keyed by the username: a
\* record with the same username is replaced
InMemoryUserRepository_create_ByUsername(store, id, user, password_hash) ==
    LET new_user == NewUser(id, user.username, user.email, password_hash)
        kept == {k \in DOMAIN store : store[k].username # user.username}
    IN  [ok |-> TRUE, err |-> OkUnit, user |-> new_user,
         store |-> Insert([k \in kept |-> store[k]], UuidToString(id), new_user)]

\* InMemoryUserRepository::create: locks the map, builds the record and
\* inserts it under the new id; it compares no username and no email, and
\* returns Ok(new_user)
InMemoryUserRepository_create(store, id, user, password_hash) ==
    LET new_user == NewUser(id, user.username, user.email, password_hash)
    IN  [ok |-> TRUE, err |-> OkUnit, user |-> new_user,
         store |-> Insert(store, UuidToString(id), new_user)]

(***************************************************************************)
(* db/postgres_connection.rs, db/mysql_connection.rs,                      *)
(* db/sqlite_connection.rs: the table users with id as primary key and     *)
(* UNIQUE username and email, on a database that is up (a query fails only *)
(* when a constraint is violated)                                          *)
(***************************************************************************)
\* a variant for a table whose email column is not UNIQUE
UniqueViolation_UsernameOnly(rows, id, user) ==
    \/ UuidToString(id) \in DOMAIN rows
    \/ \E row \in Stored(rows) : row.username = user.username

\* the INSERT violates the primary key or a UNIQUE constraint
UniqueViolation(rows, id, user) ==
    \/ UuidToString(id) \in DOMAIN rows
    \/ \E row \in Stored(rows) :
          row.username = user.username \/ row.email = user.email

\* a variant on a table without the UNIQUE constraints on username and email
PostgresUserRepository_create_NoConstraint(rows, id, user, password_hash) ==
    LET new_user == NewUser(id, user.username, user.email, password_hash)
    IN  [ok |-> TRUE, err |-> OkUnit, user |-> new_user,
         store |-> Insert(rows, UuidToString(id), new_user)]

\* PostgresUserRepository::create (MySQL, SQLite alike): INSERT INTO users,
\* .map_err(|_| AuthError::DatabaseError)?, Ok(user)
PostgresUserRepository_create(rows, id, user, password_hash) ==
    LET new_user == NewUser(id, user.username, user.email, password_hash)
    IN  IF UniqueViolation(rows, id, user)
        THEN [ok |-> FALSE, err |-> DatabaseError, user |-> NoUser,
              store |-> rows]
        ELSE [ok |-> TRUE, err |-> OkUnit, user |-> new_user,
              store |-> Insert(rows, UuidToString(id), new_user)]

\* Result<User, AuthError> and Result<Option<User>, AuthError> of a call that
\* was not made
NoReturn == [ok |-> FALSE, err |-> OkUnit, user |-> NoUser]

\* the store of the repository the handlers were given
Repo == IF backend = "sql" THEN table ELSE users

(***************************************************************************)
(* Requests: the locals of a handler and where it stands                   *)
(***************************************************************************)
NoPayload == [username |-> <<>>, email |-> <<>>, password |-> <<>>]

NoResp == [status |-> 0, error |-> NoMsg, token |-> NoToken]

\* a free slot
Idle == [kind |-> "none", pc |-> "idle", payload |-> NoPayload,
         password_hash |-> NoHash, user |-> NoUser, resp |-> NoResp,
         calls |-> <<>>, pre |-> EmptyStore]

InFlight(r) == req[r].pc \notin {"idle", "done"}

\* the handler returns: its response is ready for the client
Respond(r, resp, calls) ==
    [req EXCEPT ![r] = [@ EXCEPT !.pc = "done", !.resp = resp,
                                 !.calls = @ \o calls]]

\* the Mutex of InMemoryUserRepository: whether it is locked, and the callers
\* that are between lock() and the drop of their guard
Unlocked == [locked |-> FALSE, inside |-> {}]

\* a variant of lock() that does not wait for the mutex
lock_NoWait(caller) ==
    mutex' = [locked |-> TRUE, inside |-> mutex.inside \cup {caller}]

\* self.users.lock().unwrap(): returns when the mutex is free, and holds it;
\* no operation panics with the guard, so the mutex is never poisoned
lock(caller) ==
    /\ ~mutex.locked
    /\ mutex' = [locked |-> TRUE, inside |-> mutex.inside \cup {caller}]

\* a variant whose guard is leaked: the mutex stays locked
drop_Leaked(caller) ==
    mutex' = [locked |-> TRUE, inside |-> mutex.inside \ {caller}]

\* the guard goes out of scope when the operation returns
drop(caller) ==
    mutex' = [locked |-> FALSE, inside |-> mutex.inside \ {caller}]

\* an operation of the in-memory repository, from its lock() (unless the
\* caller is already past it) to its return; the SQL backends have no mutex
InStore(caller) ==
    IF backend = "sql"
    THEN UNCHANGED mutex
    ELSE /\ caller \in mutex.inside \/ ~mutex.locked
         /\ drop(caller)

\* the handler goes on to its next call
Goto(r, pc, calls) ==
    [req EXCEPT ![r] = [@ EXCEPT !.pc = pc, !.calls = @ \o calls]]

(***************************************************************************)
(* handlers/auth_handler.rs: register_handler                              *)
(***************************************************************************)
\* a variant that checks the username before the e-mail
RegisterValidation_UsernameFirst(payload) ==
    IF validate_username(payload.username) # OkUnit
    THEN [calls |-> <<"validate_username">>, err |-> validate_username(payload.username)]
    ELSE IF validate_email(payload.email) # OkUnit
    THEN [calls |-> <<"validate_username", "validate_email">>,
          err |-> validate_email(payload.email)]
    ELSE [calls |-> <<"validate_username", "validate_email", "validate_password">>,
          err |-> validate_password(payload.password)]

\* validate_email(..)?; validate_username(..)?; validate_password(..)?
\* the calls made, and the error of the first that fails (OkUnit when none)
RegisterValidation(payload) ==
    IF validate_email(payload.email) # OkUnit
    THEN [calls |-> <<"validate_email">>, err |-> validate_email(payload.email)]
    ELSE IF validate_username(payload.username) # OkUnit
    THEN [calls |-> <<"validate_email", "validate_username">>,
          err |-> validate_username(payload.username)]
    ELSE [calls |-> <<"validate_email", "validate_username", "validate_password">>,
          err |-> validate_password(payload.password)]

\* a register request arrives and is validated
RegisterBegin(r, payload) ==
    /\ req[r].pc = "idle"
    /\ Cardinality(DOMAIN Repo)
         + Cardinality({q \in Reqs : req[q].kind = "register" /\ InFlight(q)})
         < MaxUsers
    /\ LET v == RegisterValidation(payload)
           start == [Idle EXCEPT !.kind = "register", !.payload = payload,
                                 !.pre = Repo, !.calls = v.calls]
       IN  req' = [req EXCEPT ![r] =
                     IF v.err # OkUnit
                     THEN [start EXCEPT !.pc = "done", !.resp = IntoResponse(v.err)]
                     ELSE [start EXCEPT !.pc = "find_by_email"]]
    /\ UNCHANGED <<users, nextId, jwt_secret, now, tokens, vt, ticks, backend, table, last, vc, mutex>>

\* a variant whose error tells that it was the e-mail that collided
RegisterFindEmail_TellsField(r) ==
    /\ req[r].kind = "register"
    /\ req[r].pc = "find_by_email"
    /\ \E found \in find_by_email(Repo, req[r].payload.email) :
         req' = IF found # NoUser
                THEN Respond(r, [status |-> 409, error |-> <<"Email already exists">>,
                                 token |-> NoToken], <<"find_by_email">>)
                ELSE Goto(r, "find_by_username", <<"find_by_email">>)
    /\ UNCHANGED <<users, nextId, jwt_secret, now, tokens, vt, ticks, backend, table, last, vc>>
    /\ InStore(r)

\* if state.user_repo.find_by_email(&payload.email).await?.is_some()
RegisterFindEmail(r) ==
    /\ req[r].kind = "register"
    /\ req[r].pc = "find_by_email"
    /\ \E found \in find_by_email(Repo, req[r].payload.email) :
         req' = IF found # NoUser
                THEN Respond(r, IntoResponse(UserAlreadyExists), <<"find_by_email">>)
                ELSE Goto(r, "find_by_username", <<"find_by_email">>)
    /\ UNCHANGED <<users, nextId, jwt_secret, now, tokens, vt, ticks, backend, table, last, vc>>
    /\ InStore(r)

\* a variant that does not look the username up
RegisterFindUsername_NoCheck(r) ==
    /\ req[r].kind = "register"
    /\ req[r].pc = "find_by_username"
    /\ req' = Goto(r, "hash_password", <<>>)
    /\ UNCHANGED <<users, nextId, jwt_secret, now, tokens, vt, ticks, backend, table, last, vc>>
    /\ InStore(r)

\* if state.user_repo.find_by_username(&payload.username).await?.is_some()
RegisterFindUsername(r) ==
    /\ req[r].kind = "register"
    /\ req[r].pc = "find_by_username"
    /\ \E found \in find_by_username(Repo, req[r].payload.username) :
         req' = IF found # NoUser
                THEN Respond(r, IntoResponse(UserAlreadyExists), <<"find_by_username">>)
                ELSE Goto(r, "hash_password", <<"find_by_username">>)
    /\ UNCHANGED <<users, nextId, jwt_secret, now, tokens, vt, ticks, backend, table, last, vc>>
    /\ InStore(r)

\* crypto::hash_password(&payload.password).map_err(|_| InternalError)?,
\* with a salt from OsRng
RegisterHash(r) ==
    /\ req[r].kind = "register"
    /\ req[r].pc = "hash_password"
    /\ \E salt \in Salts :
         LET hashed == hash_password(req[r].payload.password, salt)
         IN  req' = IF ~hashed.ok
                    THEN Respond(r, IntoResponse(InternalError), <<"hash_password">>)
                    ELSE [req EXCEPT ![r] =
                            [@ EXCEPT !.pc = "create",
                                      !.password_hash = hashed.val,
                                      !.calls = @ \o <<"hash_password">>]]
    /\ UNCHANGED <<users, nextId, jwt_secret, now, tokens, vt, ticks, backend, table, last, vc, mutex>>

\* user_repo.create(CreateUser{..}, password_hash) through the trait object
create(r) ==
    LET made == IF backend = "sql"
                THEN PostgresUserRepository_create(table, nextId, req[r].payload,
                                                   req[r].password_hash)
                ELSE InMemoryUserRepository_create(users, nextId, req[r].payload,
                                                   req[r].password_hash)
    IN  /\ users' = IF backend = "sql" THEN users ELSE made.store
        /\ table' = IF backend = "sql" THEN made.store ELSE table
        /\ nextId' = nextId + 1
        /\ req' = IF made.ok
                  THEN [req EXCEPT ![r] =
                          [@ EXCEPT !.pc = "create_token", !.user = made.user,
                                    !.calls = @ \o <<"create">>]]
                  ELSE Respond(r, IntoResponse(made.err), <<"create">>)

\* state.user_repo.create(CreateUser{..}, password_hash).await?
RegisterCreate(r) ==
    /\ req[r].kind = "register"
    /\ req[r].pc = "create"
    /\ create(r)
    /\ UNCHANGED <<jwt_secret, now, tokens, vt, ticks, backend, last, vc>>
    /\ InStore(r)

\* a variant in which signing reports an error after the record was stored
RegisterToken_SignError(r) ==
    /\ req[r].kind = "register"
    /\ req[r].pc = "create_token"
    /\ req' = Respond(r, IntoResponse(InternalError), <<"create_token">>)
    /\ UNCHANGED <<users, nextId, jwt_secret, now, tokens, vt, ticks, backend, table, last, vc, mutex>>

\* create_token(&user.id.to_string(), &state.jwt_secret); Ok(Json(..))
RegisterToken(r) ==
    /\ req[r].kind = "register"
    /\ req[r].pc = "create_token"
    /\ req' = Respond(r, OkResponse(create_token(UuidToString(req[r].user.id),
                                                 jwt_secret)),
                      <<"create_token">>)
    /\ UNCHANGED <<users, nextId, jwt_secret, now, tokens, vt, ticks, backend, table, last, vc, mutex>>

(***************************************************************************)
(* handlers/auth_handler.rs: login_handler                                 *)
(***************************************************************************)
\* a login request arrives
LoginBegin(r, payload) ==
    /\ req[r].pc = "idle"
    /\ req' = [req EXCEPT ![r] =
                 [Idle EXCEPT !.kind = "login", !.payload = payload,
                              !.pre = Repo, !.pc = "find_by_username"]]
    /\ UNCHANGED <<users, nextId, jwt_secret, now, tokens, vt, ticks, backend, table, last, vc, mutex>>

\* a variant that answers an unknown username with UserNotFound
LoginFind_NotFound(r) ==
    /\ req[r].kind = "login"
    /\ req[r].pc = "find_by_username"
    /\ \E found \in find_by_username(Repo, req[r].payload.username) :
         req' = IF found = NoUser
                THEN Respond(r, IntoResponse([kind |-> "UserNotFound", msg |-> NoMsg]),
                             <<"find_by_username">>)
                ELSE [req EXCEPT ![r] =
                        [@ EXCEPT !.pc = "verify_password", !.user = found,
                                  !.calls = @ \o <<"find_by_username">>]]
    /\ UNCHANGED <<users, nextId, jwt_secret, now, tokens, vt, ticks, backend, table, last, vc>>
    /\ InStore(r)

\* find_by_username(&payload.username).await?.ok_or(InvalidCredentials)?
LoginFind(r) ==
    /\ req[r].kind = "login"
    /\ req[r].pc = "find_by_username"
    /\ \E found \in find_by_username(Repo, req[r].payload.username) :
         req' = IF found = NoUser
                THEN Respond(r, IntoResponse(InvalidCredentials), <<"find_by_username">>)
                ELSE [req EXCEPT ![r] =
                        [@ EXCEPT !.pc = "verify_password", !.user = found,
                                  !.calls = @ \o <<"find_by_username">>]]
    /\ UNCHANGED <<users, nextId, jwt_secret, now, tokens, vt, ticks, backend, table, last, vc>>
    /\ InStore(r)

\* a variant that treats a verification error as a password mismatch
LoginOutcome_ErrorAsMismatch(user, password) ==
    LET is_valid == verify_password(user.password_hash, password)
    IN  IF ~is_valid.ok \/ ~is_valid.val THEN IntoResponse(InvalidCredentials)
        ELSE OkResponse(create_token(UuidToString(user.id), jwt_secret))

\* verify_password(..).map_err(|_| InternalError)?; if !is_valid {..};
\* create_token(..); Ok(Json(..))
LoginOutcome(user, password) ==
    LET is_valid == verify_password(user.password_hash, password)
    IN  IF ~is_valid.ok THEN IntoResponse(InternalError)
        ELSE IF ~is_valid.val THEN IntoResponse(InvalidCredentials)
        ELSE OkResponse(create_token(UuidToString(user.id), jwt_secret))

LoginVerify(r) ==
    /\ req[r].kind = "login"
    /\ req[r].pc = "verify_password"
    /\ LET resp == LoginOutcome(req[r].user, req[r].payload.password)
       IN  req' = Respond(r, resp,
                          IF resp.status = 200
                          THEN <<"verify_password", "create_token">>
                          ELSE <<"verify_password">>)
    /\ UNCHANGED <<users, nextId, jwt_secret, now, tokens, vt, ticks, backend, table, last, vc, mutex>>

\* a token a client holds, with the call that issued it
Held(from, username, subject, token, secret) ==
    [from |-> from, username |-> username, subject |-> subject, token |-> token,
     secret |-> secret, at |-> now]

\* the response is sent and the slot is free again; the client keeps the token
Return(r) ==
    /\ req[r].pc = "done"
    /\ req' = [req EXCEPT ![r] = Idle]
    /\ tokens' = IF req[r].resp.status = 200
                 THEN tokens \cup {Held(req[r].kind, req[r].payload.username,
                                        UuidToString(req[r].user.id),
                                        req[r].resp.token, jwt_secret)}
                 ELSE tokens
    /\ UNCHANGED <<users, nextId, jwt_secret, now, vt, ticks, backend, table, last, vc, mutex>>

(***************************************************************************)
(* Specifications                                                          *)
(***************************************************************************)
NoHeld == [from |-> "none", username |-> <<>>, subject |-> <<>>,
           token |-> NoToken, secret |-> "", at |-> 0]

NoResult == [ok |-> FALSE, err |-> "none", claims |-> NoToken.claims]

NoAuth == [ok |-> FALSE, status |-> 0, msg |-> "", user_id |-> <<>>]

\* no verification call is in progress
NoCheck == [fn |-> "none", held |-> NoHeld, secret |-> "", at |-> 0,
            result |-> NoResult, auth |-> NoAuth, header |-> NoHeader,
            body |-> <<>>, calls |-> <<>>]

\* no validator is called
NoValidation == [fn |-> "none", input |-> <<>>, result |-> OkUnit]

\* no direct repository call was made
NoCall == [op |-> "none", arg |-> <<>>, mem |-> NoReturn, sql |-> NoReturn,
           pre |-> EmptyStore, rows |-> EmptyStore]

\* main: JWT_SECRET from the environment, InMemoryUserRepository::new()
Init ==
    /\ users = EmptyStore
    /\ nextId = 1
    /\ jwt_secret \in Secrets
    /\ now = 0
    /\ req = [r \in Reqs |-> Idle]
    /\ tokens = {}
    /\ vt = NoCheck
    /\ ticks = 0
    /\ backend = "memory"
    /\ table = EmptyStore
    /\ last = NoCall
    /\ vc = NoValidation
    /\ mutex = Unlocked

RegisterPayloads ==
    {[username |-> u, email |-> e, password |-> p] :
        u \in Usernames, e \in Emails, p \in Passwords}

LoginPayloads ==
    {[username |-> u, email |-> <<>>, password |-> p] :
        u \in Usernames, p \in LoginPasswords}

\* the steps of the requests that are in the server
Step ==
    \/ \E r \in Reqs : RegisterFindEmail(r)
    \/ \E r \in Reqs : RegisterFindUsername(r)
    \/ \E r \in Reqs : RegisterHash(r)
    \/ \E r \in Reqs : RegisterCreate(r)
    \/ \E r \in Reqs : RegisterToken(r)
    \/ \E r \in Reqs : LoginFind(r)
    \/ \E r \in Reqs : LoginVerify(r)
    \/ \E r \in Reqs : Return(r)

\* the requests that arrive while others are in the server: registrations of
\* "bob" under either e-mail address and of "ann", and logins of "bob"
ConcurrentRegisterPayloads ==
    {p \in RegisterPayloads :
        /\ p.password = <<"S","t","r","0","n","g","#","P">>
        /\ \/ p.username = <<"b","o","b">> /\ p.email # <<"a","@","b">>
           \/ p.username = <<"a","n","n">> /\ p.email = <<"a","@","b",".","c","o">>}

ConcurrentLoginPayloads ==
    {p \in LoginPayloads : p.username = <<"b","o","b">>}

\* requests arrive at any time and run concurrently (one task per request)
Next ==
    \/ \E r \in Reqs : \E p \in ConcurrentRegisterPayloads : RegisterBegin(r, p)
    \/ \E r \in Reqs : \E p \in ConcurrentLoginPayloads : LoginBegin(r, p)
    \/ Step

Spec == Init /\ [][Next]_vars

\* requests are processed one at a time: each completes, and its response is
\* sent, before the next begins
AllIdle == \A q \in Reqs : req[q].pc = "idle"

SeqNext ==
    \/ \E r \in Reqs : \E p \in RegisterPayloads : AllIdle /\ RegisterBegin(r, p)
    \/ \E r \in Reqs : \E p \in LoginPayloads : AllIdle /\ LoginBegin(r, p)
    \/ Step

SeqSpec == Init /\ [][SeqNext]_vars

(***************************************************************************)
(* A repository that already holds rows when the service starts (a         *)
(* persistent backend), and login requests against it                      *)
(***************************************************************************)
\* a row whose password_hash column is no PHC string
MalformedHash == [phc |-> FALSE, alg |-> "plain", salt |-> "none", digest |-> <<>>]

SeedUsers ==
    {[id |-> 1, username |-> <<"b","o","b">>, email |-> <<"a","@","b",".","c","o">>,
      password_hash |-> hash_password(<<"S","t","r","0","n","g","#","P">>, "s1").val,
      created_at |-> 0, updated_at |-> 0, is_active |-> TRUE],
     [id |-> 2, username |-> <<"a","n","n">>, email |-> <<"c","@","d",".","i","o">>,
      password_hash |-> MalformedHash,
      created_at |-> 0, updated_at |-> 0, is_active |-> TRUE]}

SeedStores ==
    {[k \in {UuidToString(u.id) : u \in S} |->
        CHOOSE u \in S : UuidToString(u.id) = k] : S \in SUBSET SeedUsers}

StoredInit ==
    /\ users = EmptyStore
    /\ nextId = Cardinality(SeedUsers) + 1
    /\ jwt_secret \in Secrets
    /\ now = 0
    /\ req = [r \in Reqs |-> Idle]
    /\ tokens = {}
    /\ vt = NoCheck
    /\ ticks = 0
    /\ backend = "sql"
    /\ table \in SeedStores
    /\ last = NoCall
    /\ vc = NoValidation
    /\ mutex = Unlocked

LoginNext ==
    \/ \E r \in Reqs : \E p \in LoginPayloads : AllIdle /\ LoginBegin(r, p)
    \/ \E r \in Reqs : LoginFind(r)
    \/ \E r \in Reqs : LoginVerify(r)
    \/ \E r \in Reqs : Return(r)

StoredSpec == StoredInit /\ [][LoginNext]_vars

(***************************************************************************)
(* Properties of the register and login requests                           *)
(***************************************************************************)
Done(r) == req[r].pc = "done"
IsRegister(r) == req[r].kind = "register"
IsLogin(r) == req[r].kind = "login"

ValidFields(p) ==
    /\ validate_email(p.email) = OkUnit
    /\ validate_username(p.username) = OkUnit
    /\ validate_password(p.password) = OkUnit

\* the stored users a register request collides with
EmailTaken(store, p) == \E u \in Stored(store) : u.email = p.email
UsernameTaken(store, p) == \E u \in Stored(store) : u.username = p.username

\* the password a stored hash was derived from
RegisteredPassword(u) == u.password_hash.digest[1]

PasswordMatches(u, password) ==
    /\ u.password_hash.phc
    /\ u.password_hash.alg = "argon2id"
    /\ RegisteredPassword(u) = password

\* C1: with requests processed one at a time, no two stored users share a
\* username and no two stored users share an email
C1_UniqueUsernameAndEmail ==
    \A j, k \in DOMAIN users :
        j # k => /\ users[j].username # users[k].username
                 /\ users[j].email # users[k].email

\* two users are stored and a registration repeating a stored username was
\* turned down
C1_Witness ==
    /\ Cardinality(DOMAIN users) = 2
    /\ \E r \in Reqs : /\ Done(r) /\ IsRegister(r)
                       /\ UsernameTaken(users, req[r].payload)
                       /\ req[r].resp.status = 409

\* C2: a register request with valid fields whose email or username equals
\* that of a stored user fails with UserAlreadyExists, 409 "User already
\* exists", the same response whichever field collided
C2_DuplicateIsConflict ==
    \A r \in Reqs :
        (/\ Done(r) /\ IsRegister(r)
         /\ ValidFields(req[r].payload)
         /\ (EmailTaken(req[r].pre, req[r].payload)
               \/ UsernameTaken(req[r].pre, req[r].payload)))
        => /\ req[r].resp = IntoResponse(UserAlreadyExists)
           /\ req[r].resp.status = 409
           /\ req[r].resp.error = <<"User already exists">>
           /\ req[r].resp.token = NoToken

\* a registration whose email alone collided was answered 409
C2_Witness ==
    \E r \in Reqs :
        /\ Done(r) /\ IsRegister(r)
        /\ ValidFields(req[r].payload)
        /\ EmailTaken(req[r].pre, req[r].payload)
        /\ ~UsernameTaken(req[r].pre, req[r].payload)
        /\ req[r].resp.status = 409

\* the error of the first validation that fails, email, username, password
FirstInvalid(p) ==
    IF validate_email(p.email) # OkUnit THEN validate_email(p.email)
    ELSE IF validate_username(p.username) # OkUnit THEN validate_username(p.username)
    ELSE validate_password(p.password)

ValidationCalls == <<"validate_email", "validate_username", "validate_password">>

ValidationsUntilFailure(p) ==
    IF validate_email(p.email) # OkUnit THEN 1
    ELSE IF validate_username(p.username) # OkUnit THEN 2 ELSE 3

\* C3: a register request with an invalid field is answered 400 with the
\* error of the first failing check (email, username, password), having made
\* no repository lookup, no hashing and no create, also when its email or
\* username is registered
C3_ValidationFirst ==
    \A r \in Reqs :
        (IsRegister(r) /\ ~ValidFields(req[r].payload))
        => /\ Done(r)
           /\ req[r].resp = IntoResponse(FirstInvalid(req[r].payload))
           /\ req[r].resp.status = 400
           /\ req[r].calls = SubSeq(ValidationCalls, 1,
                                    ValidationsUntilFailure(req[r].payload))
           /\ req[r].password_hash = NoHash
           /\ req[r].user = NoUser
           /\ users = req[r].pre

\* a registration with a registered email and username and a weak password
\* was answered 400
C3_Witness ==
    \E r \in Reqs :
        /\ Done(r) /\ IsRegister(r)
        /\ EmailTaken(users, req[r].payload)
        /\ UsernameTaken(users, req[r].payload)
        /\ validate_password(req[r].payload.password) # OkUnit
        /\ req[r].resp.status = 400

\* C4: a register request with valid fields that match no stored user
\* succeeds: one record is added, with the request's username and email, a
\* new identifier and the active flag, and the token's subject is that
\* record's identifier
C4_RegisterCreatesUser ==
    \A r \in Reqs :
        (/\ Done(r) /\ IsRegister(r)
         /\ ValidFields(req[r].payload)
         /\ ~EmailTaken(req[r].pre, req[r].payload)
         /\ ~UsernameTaken(req[r].pre, req[r].payload))
        => /\ req[r].resp.status = 200
           /\ \E k \in DOMAIN users \ DOMAIN req[r].pre :
                /\ DOMAIN users = DOMAIN req[r].pre \cup {k}
                /\ \A j \in DOMAIN req[r].pre : users[j] = req[r].pre[j]
                /\ users[k].username = req[r].payload.username
                /\ users[k].email = req[r].payload.email
                /\ users[k].is_active
                /\ k = UuidToString(users[k].id)
                /\ \A j \in DOMAIN req[r].pre : users[j].id # users[k].id
                /\ req[r].resp.token.claims.sub = UuidToString(users[k].id)

\* a registration succeeded on a store that already held a user
C4_Witness ==
    \E r \in Reqs :
        /\ Done(r) /\ IsRegister(r)
        /\ req[r].resp.status = 200
        /\ DOMAIN req[r].pre # {}
        /\ Cardinality(DOMAIN users) = Cardinality(DOMAIN req[r].pre) + 1

C6_LoginFailuresAlike ==
    \A r \in Reqs :
        (/\ Done(r) /\ IsLogin(r)
         /\ \/ ~UsernameTaken(req[r].pre, req[r].payload)
            \/ \E u \in Stored(req[r].pre) :
                 /\ u.username = req[r].payload.username
                 /\ ~PasswordMatches(u, req[r].payload.password))
        => /\ req[r].resp = IntoResponse(InvalidCredentials)
           /\ req[r].resp.status = 401
           /\ req[r].resp.error = <<"Invalid credentials">>

\* a login with a stored username and another password was answered 401
C6_Witness ==
    \E r \in Reqs :
        /\ Done(r) /\ IsLogin(r)
        /\ \E u \in Stored(req[r].pre) :
             /\ u.username = req[r].payload.username
             /\ ~PasswordMatches(u, req[r].payload.password)
        /\ req[r].resp.status = 401

VerifyFails(r) ==
    \E u \in Stored(req[r].pre) :
        /\ u.username = req[r].payload.username
        /\ ~u.password_hash.phc

Subjects == {UuidToString(1), UuidToString(2)}

\* clients hold at most MaxTokens tokens
MaxTokens == 1

\* the clock is advanced at most MaxTicks times
MaxTicks == 3

\* by a second, by the leeway, by the lifetime of a token
TickSteps == {1, Leeway, TokenLifetime}

\* create_token(s, k) is called and the caller keeps the token
IssueToken(s, k) ==
    /\ vt = NoCheck
    /\ Cardinality(tokens) < MaxTokens
    /\ tokens' = tokens \cup {Held("create_token", <<>>, s, create_token(s, k), k)}
    /\ UNCHANGED <<users, nextId, jwt_secret, now, req, vt, ticks, backend, table, last, vc, mutex>>

\* validate_token(token, k) is called on a token a client holds
ValidateToken(t, k) ==
    /\ vt = NoCheck
    /\ vt' = [fn |-> "validate_token", held |-> t, secret |-> k, at |-> now,
              result |-> validate_token(t.token, k), auth |-> NoAuth,
              header |-> NoHeader, body |-> <<>>, calls |-> <<"decode">>]
    /\ UNCHANGED <<users, nextId, jwt_secret, now, req, tokens, ticks, backend, table, last, vc, mutex>>

\* a token with its expiry moved a lifetime ahead and its signature kept
Tampered(token) == [token EXCEPT !.claims.exp = @ + TokenLifetime]

\* the Authorization headers a client that holds t can send
Headers(t) ==
    {NoHeader, OpaqueHeader, BasicHeader(t.token), BearerHeader(t.token),
     BearerHeader(MalformedToken), BearerHeader(Tampered(t.token))}

\* the calls the extractor makes: jsonwebtoken::decode once the header has
\* passed, and none to the user repository
ExtractorCalls(header) ==
    IF header.present /\ header.text /\ header.scheme = "Bearer "
    THEN <<"decode">> ELSE <<>>

\* a variant that looks the stored users up and turns down a token issued
\* before the latest registration
Protected_RevokedByRegistration(t, header) ==
    LET user == from_request_parts(header)
        revoked == \E u \in Stored(users) : u.created_at > header.token.claims.iat
    IN  [fn |-> "from_request_parts", held |-> t, secret |-> jwt_secret,
         at |-> now, result |-> NoResult,
         auth |-> IF user.ok /\ revoked
                  THEN Rejection("Invalid Token or expired") ELSE user,
         header |-> header,
         body |-> IF user.ok /\ ~revoked THEN protect_handler(user) ELSE <<user.msg>>,
         calls |-> ExtractorCalls(header)]

\* GET /private: the extractor runs, then protect_handler if it accepts
Protected(t, header) ==
    LET user == from_request_parts(header)
    IN  [fn |-> "from_request_parts", held |-> t, secret |-> jwt_secret,
         at |-> now, result |-> NoResult, auth |-> user, header |-> header,
         body |-> IF user.ok THEN protect_handler(user) ELSE <<user.msg>>,
         calls |-> ExtractorCalls(header)]

\* a protected route is requested by a client that holds t
ExtractAuthUser(t) ==
    /\ vt = NoCheck
    /\ \E header \in Headers(t) : vt' = Protected(t, header)
    /\ UNCHANGED <<users, nextId, jwt_secret, now, req, tokens, ticks, backend, table, last, vc, mutex>>

\* the verification call returns
ReturnCheck ==
    /\ vt # NoCheck
    /\ vt' = NoCheck
    /\ UNCHANGED <<users, nextId, jwt_secret, now, req, tokens, ticks, backend, table, last, vc, mutex>>

\* time passes
Tick(d) ==
    /\ vt = NoCheck
    /\ ticks < MaxTicks
    /\ now' = now + d
    /\ ticks' = ticks + 1
    /\ UNCHANGED <<users, nextId, jwt_secret, req, tokens, vt, backend, table, last, vc, mutex>>

TokenNext ==
    \/ \E s \in Subjects : \E k \in Secrets : IssueToken(s, k)
    \/ \E t \in tokens : \E k \in Secrets : ValidateToken(t, k)
    \/ \E t \in tokens \cup {NoHeld} : ExtractAuthUser(t)
    \/ ReturnCheck
    \/ \E d \in TickSteps : Tick(d)

TokenSpec == Init /\ [][TokenNext]_vars

\* the verification call in progress accepted the token
Accepted ==
    \/ vt.fn = "validate_token" /\ vt.result.ok
    \/ vt.fn = "from_request_parts" /\ vt.auth.ok

\* C9: validate_token(create_token(s, k), k) right after issuance succeeds
\* with sub = s, iat = the time of issuance and exp = iat + 86400
C9_RoundTrip ==
    (/\ vt.fn = "validate_token"
     /\ vt.held.from = "create_token"
     /\ vt.secret = vt.held.secret
     /\ vt.at = vt.held.at)
    => /\ vt.result.ok
       /\ vt.result.claims.sub = vt.held.subject
       /\ vt.result.claims.iat = vt.held.at
       /\ vt.result.claims.exp = vt.result.claims.iat + 86400

\* a token issued after the clock had advanced was validated at once, under
\* the secret that signed it
C9_Witness ==
    /\ vt.fn = "validate_token"
    /\ vt.held.from = "create_token"
    /\ vt.secret = vt.held.secret
    /\ vt.at = vt.held.at
    /\ vt.at > 0
    /\ vt.result.ok

\* C10: a token issued at time t is rejected by validate_token and by the
\* extractor at every time later than t + 24 hours
C10_RejectedAfter24Hours ==
    (vt.fn # "none" /\ vt.at > vt.held.at + 86400) => ~Accepted

(***************************************************************************)
(* Sessions: clients register, log in, keep their tokens and request the   *)
(* protected route with them while time passes                             *)
(***************************************************************************)
\* the clients of a session hold at most MaxSessionTokens tokens
MaxSessionTokens == 2

\* registrations of "bob" and of "ann"
SessionRegisterPayloads ==
    {p \in RegisterPayloads :
        /\ p.password = <<"S","t","r","0","n","g","#","P">>
        /\ \/ p.username = <<"b","o","b">> /\ p.email = <<"a","@","b",".","c","o">>
           \/ p.username = <<"a","n","n">> /\ p.email = <<"c","@","d",".","i","o">>}

\* logins of "bob", with the registered password and with another
SessionLoginPayloads ==
    {p \in LoginPayloads : p.username = <<"b","o","b">>}

\* a client that awaits no response and can keep the token of one more
RoomForToken == vt = NoCheck /\ Cardinality(tokens) < MaxSessionTokens

SessionNext ==
    \/ \E r \in Reqs : \E p \in SessionRegisterPayloads :
          AllIdle /\ RoomForToken /\ RegisterBegin(r, p)
    \/ \E r \in Reqs : \E p \in SessionLoginPayloads :
          AllIdle /\ RoomForToken /\ LoginBegin(r, p)
    \/ Step
    \/ \E t \in tokens \cup {NoHeld} : AllIdle /\ ExtractAuthUser(t)
    \/ ReturnCheck
    \/ \E d \in TickSteps : AllIdle /\ Tick(d)

SessionSpec == Init /\ [][SessionNext]_vars

(***************************************************************************)
(* Registrations that run concurrently, on the in-memory repository and on *)
(* a SQL repository                                                        *)
(***************************************************************************)
\* the commented main of main.rs: a SQL repository on an empty table
SqlInit ==
    /\ users = EmptyStore
    /\ nextId = 1
    /\ jwt_secret \in Secrets
    /\ now = 0
    /\ req = [r \in Reqs |-> Idle]
    /\ tokens = {}
    /\ vt = NoCheck
    /\ ticks = 0
    /\ backend = "sql"
    /\ table = EmptyStore
    /\ last = NoCall
    /\ vc = NoValidation
    /\ mutex = Unlocked

\* NumReqs register requests arrive, at any time; each runs as a task of
\* its own, the tasks interleave at every await, and every response stays
\* on record
RaceNext ==
    \/ \E r \in Reqs : \E p \in ConcurrentRegisterPayloads : RegisterBegin(r, p)
    \/ \E r \in Reqs : RegisterFindEmail(r)
    \/ \E r \in Reqs : RegisterFindUsername(r)
    \/ \E r \in Reqs : RegisterHash(r)
    \/ \E r \in Reqs : RegisterCreate(r)
    \/ \E r \in Reqs : RegisterToken(r)

RaceSpec == Init /\ [][RaceNext]_vars

SqlRaceSpec == SqlInit /\ [][RaceNext]_vars

(***************************************************************************)
(* The repository called directly: every call is made on the in-memory     *)
(* repository and on a SQL repository, with the same arguments             *)
(***************************************************************************)
\* CreateUser values: "bob" and "ann" under either e-mail address
Candidates ==
    {p \in RegisterPayloads :
        /\ p.password = <<"S","t","r","0","n","g","#","P">>
        /\ p.username # <<"a","l">>
        /\ p.email # <<"a","@","b">>}

NoArg == [id |-> 0, username |-> <<>>, email |-> <<>>]

\* the Result a repository call returned
Returned(r) == [ok |-> r.ok, err |-> r.err, user |-> r.user]

\* Ok(Option<User>)
OkFound(user) == [ok |-> TRUE, err |-> OkUnit, user |-> user]

\* create(user, password_hash) on both repositories; each draws its own id
RepoCreate(c) ==
    /\ Cardinality(DOMAIN users) < MaxUsers
    /\ \E h \in {hash_password(c.password, "s1").val} :
         LET m == InMemoryUserRepository_create(users, nextId, c, h)
             q == PostgresUserRepository_create(table, nextId + 1, c, h)
         IN  /\ users' = m.store
             /\ table' = q.store
             /\ nextId' = nextId + 2
             /\ last' = [op |-> "create",
                         arg |-> [NoArg EXCEPT !.username = c.username,
                                               !.email = c.email],
                         mem |-> Returned(m), sql |-> Returned(q),
                         pre |-> users, rows |-> table]
    /\ UNCHANGED <<jwt_secret, now, req, tokens, vt, ticks, backend, vc, mutex>>

\* find_by_email(email) on both repositories
RepoFindByEmail(email) ==
    /\ \E fm \in find_by_email(users, email) :
       \E fq \in find_by_email(table, email) :
         last' = [op |-> "find_by_email", arg |-> [NoArg EXCEPT !.email = email],
                  mem |-> OkFound(fm), sql |-> OkFound(fq),
                  pre |-> users, rows |-> table]
    /\ UNCHANGED <<users, nextId, jwt_secret, now, req, tokens, vt, ticks,
                   backend, table, vc, mutex>>

\* find_by_username(username) on both repositories
RepoFindByUsername(username) ==
    /\ \E fm \in find_by_username(users, username) :
       \E fq \in find_by_username(table, username) :
         last' = [op |-> "find_by_username",
                  arg |-> [NoArg EXCEPT !.username = username],
                  mem |-> OkFound(fm), sql |-> OkFound(fq),
                  pre |-> users, rows |-> table]
    /\ UNCHANGED <<users, nextId, jwt_secret, now, req, tokens, vt, ticks,
                   backend, table, vc, mutex>>

\* find_by_id on both repositories, each with the id it drew in the n-th
\* create call (an id no record has when fewer create calls were made)
RepoFindById(n) ==
    /\ last' = [op |-> "find_by_id", arg |-> [NoArg EXCEPT !.id = n],
                mem |-> OkFound(find_by_id(users, 2 * n - 1)),
                sql |-> OkFound(find_by_id(table, 2 * n)),
                pre |-> users, rows |-> table]
    /\ UNCHANGED <<users, nextId, jwt_secret, now, req, tokens, vt, ticks,
                   backend, table, vc, mutex>>

RepoNext ==
    \/ \E c \in Candidates : RepoCreate(c)
    \/ \E c \in Candidates : RepoFindByEmail(c.email)
    \/ \E c \in Candidates : RepoFindByUsername(c.username)
    \/ \E n \in 1..((nextId + 1) \div 2) : RepoFindById(n)

RepoSpec == Init /\ [][RepoNext]_vars

(***************************************************************************)
(* The in-memory repository with its mutex: lock() and the rest of an      *)
(* operation are steps of their own, so that other requests run between    *)
(* them                                                                    *)
(***************************************************************************)
\* a caller of the repository that is no handler: find_by_id has none
Direct == 0

Callers == Reqs \cup {Direct}

\* the positions of a handler at which it calls the repository
StoreCalls == {"find_by_email", "find_by_username", "create"}

\* the caller is at an operation of the repository and its lock() returns
Acquire(caller) ==
    /\ backend = "memory"
    /\ caller \notin mutex.inside
    /\ caller \in Reqs => req[caller].pc \in StoreCalls
    /\ lock(caller)
    /\ UNCHANGED <<users, nextId, jwt_secret, now, req, tokens, vt, ticks,
                   backend, table, last, vc>>

\* InMemoryUserRepository::find_by_id: users.get(&id.to_string()).cloned()
DirectFindById(id) ==
    /\ backend = "memory"
    /\ InStore(Direct)
    /\ last' = [NoCall EXCEPT !.op = "find_by_id",
                              !.arg = [NoArg EXCEPT !.id = id],
                              !.mem = OkFound(find_by_id(users, id))]
    /\ UNCHANGED <<users, nextId, jwt_secret, now, req, tokens, vt, ticks,
                   backend, table, vc>>

\* registrations of "bob" under either e-mail address, and logins of "bob"
\* with the right password
LockRegisterPayloads ==
    {p \in ConcurrentRegisterPayloads : p.username = <<"b","o","b">>}

LockLoginPayloads ==
    {p \in ConcurrentLoginPayloads : p.password = <<"S","t","r","0","n","g","#","P">>}

\* register and login requests run concurrently, each slot serves one
\* request, and every response stays on record
HandlerNext ==
    \/ \E r \in Reqs : \E p \in LockRegisterPayloads : RegisterBegin(r, p)
    \/ \E r \in Reqs : \E p \in LockLoginPayloads : LoginBegin(r, p)
    \/ \E r \in Reqs : Acquire(r)
    \/ \E r \in Reqs : RegisterFindEmail(r)
    \/ \E r \in Reqs : RegisterFindUsername(r)
    \/ \E r \in Reqs : RegisterHash(r)
    \/ \E r \in Reqs : RegisterCreate(r)
    \/ \E r \in Reqs : RegisterToken(r)
    \/ \E r \in Reqs : LoginFind(r)
    \/ \E r \in Reqs : LoginVerify(r)

LockNext ==
    \/ HandlerNext
    \/ Acquire(Direct)
    \/ \E id \in {1} : DirectFindById(id)

LockSpec == Init /\ [][LockNext]_vars

\* the steps of one request, from its first call to its response
Handle(r) ==
    \/ Acquire(r)
    \/ RegisterFindEmail(r)
    \/ RegisterFindUsername(r)
    \/ RegisterHash(r)
    \/ RegisterCreate(r)
    \/ RegisterToken(r)
    \/ LoginFind(r)
    \/ LoginVerify(r)

\* the runtime polls every task that can go on
FairSpec ==
    /\ Init
    /\ [][HandlerNext]_vars
    /\ \A r \in Reqs : WF_vars(Handle(r))

(***************************************************************************)
(* The validators called on their own                                      *)
(***************************************************************************)
\* the character c, n times
Rep(c, n) == [i \in 1..n |-> c]

\* a password is padded with up to MaxPad characters that meet no rule
MaxPad == 5

\* passwords: an uppercase letter or none, a lowercase letter or none, a
\* number or none, a special character or none, and padding; the passwords
\* of the tests of validation.rs; and "Aa1!" followed by three e acute
PasswordInputs ==
    {u \o l \o n \o c \o Rep("~", k) :
        u \in {<<>>, <<"A">>, <<UpperEAcute>>},
        l \in {<<>>, <<"b">>, <<LowerEAcute>>},
        n \in {<<>>, <<"1">>, <<OneHalf>>},
        c \in {<<>>, <<"!">>, <<"?">>},
        k \in 0..MaxPad}
    \cup {<<"S", "e", "n", "h", "a", "1", "2", "3", "!">>,
          <<"M", "y", "P", "@", "s", "s", "w", "0", "r", "d">>,
          <<"S", "t", "r", "0", "n", "g", "#", "P", "a", "s", "s">>,
          <<"w", "e", "a", "k">>,
          <<"n", "o", "u", "p", "p", "p", "e", "r", "c", "a", "s", "e", "1", "!">>,
          <<"N", "O", "L", "O", "W", "E", "R", "C", "A", "S", "E", "1", "!">>,
          <<"N", "o", "N", "u", "m", "b", "e", "r", "s", "!">>,
          <<"N", "o", "S", "p", "e", "c", "i", "a", "l", "1", "2", "3">>}
    \cup {<<"A", "a", "1", "!", LowerEAcute, LowerEAcute, LowerEAcute>>}

\* usernames of 0, 1, 2, 3, 4, 49, 50 and 51 characters with every kind of
\* first, inner and last character, and the usernames of the tests
UsernameEdges == {"a", "Z", "5", "_", "-", " ", LowerEAcute}

UsernameInputs ==
    {<<>>, <<"a">>, <<"_">>}
    \cup {<<f>> \o Rep(m, k) \o <<l>> :
            f \in UsernameEdges, l \in UsernameEdges,
            m \in {"a", "7", "_", "-", ".", UpperEAcute},
            k \in {0, 1, 2, MaxUsernameLen - 3, MaxUsernameLen - 2,
                   MaxUsernameLen - 1}}
    \cup {<<"j", "o", "h", "n", "_", "d", "o", "e">>,
            <<"u", "s", "e", "r", "1", "2", "3">>,
            <<"t", "e", "s", "t", "-", "u", "s", "e", "r">>,
            <<"a", "b">>,
            <<"_", "u", "s", "e", "r">>,
            <<"u", "s", "e", "r", "_">>,
            <<"u", "s", "e", "r", " ", "n", "a", "m", "e">>}

\* e-mail addresses put together from a local part, "@" or nothing, a
\* domain, "." or nothing, and a top-level domain; with the longest domain
\* they are 254 to 257 characters long; and the addresses of the tests
EmailInputs ==
    {l \o a \o d \o p \o t :
        l \in {<<>>, <<"a">>, <<"a", ".", "b", "+", "c">>, <<"a", "!", "b">>,
               <<"a", " ", "b">>, <<LowerEAcute>>},
        a \in {<<>>, <<"@">>},
        d \in {<<>>, <<"b">>, <<"b", "-", "c", ".", "d">>, <<"b", "_", "c">>,
               <<"b", "-">> \o Rep("d", MaxEmailLen - 7)},
        p \in {<<>>, <<".">>},
        t \in {<<>>, <<"c">>, <<"c", "o">>, <<"c", "o", "m">>, <<"c", "1">>,
               <<"c", "o", "m", "m">>}}
    \cup {<<"u", "s", "e", "r", "@", "e", "x", "a", "m", "p", "l", "e", ".", "c", "o", "m">>,
          <<"t", "e", "s", "t", ".", "u", "s", "e", "r", "@", "c", "o", "m", "p", "a", "n", "y", ".", "c", "o", ".", "u", "k">>,
          <<"n", "a", "m", "e", "1", "2", "3", "@", "p", "r", "o", "v", "i", "d", "e", "r", ".", "o", "r", "g">>,
          <<"i", "n", "v", "a", "l", "i", "d">>,
          <<"@", "e", "x", "a", "m", "p", "l", "e", ".", "c", "o", "m">>,
          <<"u", "s", "e", "r", "@">>,
          <<"u", "s", "e", "r", "@", "c", "o", "m">>}

ValidatorInputs == PasswordInputs \cup UsernameInputs \cup EmailInputs

\* the input of the call is chosen
ValidationInit ==
    /\ users = EmptyStore
    /\ nextId = 1
    /\ jwt_secret \in Secrets
    /\ now = 0
    /\ req = [r \in Reqs |-> Idle]
    /\ tokens = {}
    /\ vt = NoCheck
    /\ ticks = 0
    /\ backend = "memory"
    /\ table = EmptyStore
    /\ last = NoCall
    /\ vc \in {[NoValidation EXCEPT !.input = s] : s \in ValidatorInputs}
    /\ mutex = Unlocked

ValidatorFrame ==
    UNCHANGED <<users, nextId, jwt_secret, now, req, tokens, vt, ticks, backend,
                table, last, mutex>>

CallValidatePassword ==
    /\ vc.fn = "none"
    /\ vc' = [vc EXCEPT !.fn = "validate_password",
                        !.result = validate_password(vc.input)]
    /\ ValidatorFrame

CallValidateUsername ==
    /\ vc.fn = "none"
    /\ vc' = [vc EXCEPT !.fn = "validate_username",
                        !.result = validate_username(vc.input)]
    /\ ValidatorFrame

CallValidateEmail ==
    /\ vc.fn = "none"
    /\ vc' = [vc EXCEPT !.fn = "validate_email",
                        !.result = validate_email(vc.input)]
    /\ ValidatorFrame

ValidationNext ==
    \/ CallValidatePassword
    \/ CallValidateUsername
    \/ CallValidateEmail

ValidationSpec == ValidationInit /\ [][ValidationNext]_vars

(***************************************************************************)
(* Properties of the protected route                                       *)
(***************************************************************************)
\* the request in progress is a protected-route request whose Authorization
\* header reads "Bearer <token>"
BearerRequest ==
    /\ vt.fn = "from_request_parts"
    /\ vt.header.present /\ vt.header.text
    /\ vt.header.scheme = "Bearer "

\* the token is a well-formed JWT whose signature is not the one the
\* configured secret gives
SignedOtherwise(token) ==
    /\ token.header = "HS256"
    /\ token.sig # Hmac(jwt_secret, token.header, token.claims)

\* the token is no JWT
Malformed(token) == token.header # "HS256"

\* the token's expiry, with the verifier's leeway, lies before the time at
\* (the tokens between exp and exp + leeway are the subject of C10)
ExpiredAt(token, at) == token.claims.exp + Leeway < at

Rejected401 == ~vt.auth.ok /\ vt.auth.status = 401 /\ vt.auth.user_id = <<>>

\* C12: a protected-route request is rejected with 401 when the
\* Authorization header is missing, when its value does not start with
\* "Bearer " and when the token after the prefix fails verification; every
\* other request is accepted with the token's subject as the user id, so
\* the token of a successful login yields 200 echoing the id of the user who
\* logged in
C12_ProtectedRoute ==
    vt.fn = "from_request_parts" =>
        /\ ~vt.header.present => Rejected401
        /\ (vt.header.present /\ vt.header.scheme # "Bearer ") => Rejected401
        /\ (/\ vt.header.present /\ vt.header.scheme = "Bearer "
            /\ ~validate_token(vt.header.token, jwt_secret).ok) => Rejected401
        /\ (/\ vt.header.present /\ vt.header.scheme = "Bearer "
            /\ validate_token(vt.header.token, jwt_secret).ok)
           => /\ vt.auth.ok
              /\ vt.auth.status = 200
              /\ vt.auth.user_id = vt.header.token.claims.sub
              /\ vt.body = <<"Acesso concedido para o usuario: ",
                             vt.header.token.claims.sub>>
        /\ (/\ vt.held.from = "login"
            /\ vt.header = BearerHeader(vt.held.token)
            /\ vt.at <= vt.held.at + TokenLifetime)
           => /\ vt.auth.status = 200
              /\ \E u \in Stored(users) :
                   /\ u.username = vt.held.username
                   /\ vt.auth.user_id = UuidToString(u.id)
                   /\ vt.body[2] = UuidToString(u.id)

\* the token of a login was sent as a bearer token some time after the
\* login, and the response echoed the id of the user who logged in
C12_Witness ==
    /\ vt.fn = "from_request_parts"
    /\ vt.held.from = "login"
    /\ vt.header = BearerHeader(vt.held.token)
    /\ vt.at > vt.held.at
    /\ vt.auth.status = 200
    /\ \E u \in Stored(users) : /\ u.username = vt.held.username
                                /\ vt.body[2] = UuidToString(u.id)

\* the request in progress presents, as a bearer token, a token that register
\* or login returned
SessionTokenRequest ==
    /\ vt.fn = "from_request_parts"
    /\ vt.held.from \in {"register", "login"}
    /\ vt.header = BearerHeader(vt.held.token)

\* what the token, the secret and the time alone say: a JWT signed with the
\* configured secret whose expiry, with the leeway, has not passed
ValidBy(token, secret, at) ==
    /\ token.header = "HS256"
    /\ token.sig = Hmac(secret, token.header, token.claims)
    /\ token.claims.exp + Leeway >= at

\* C13: whether a bearer token is accepted depends only on the token, the
\* signing secret and the current time; a token issued by register or login
\* is accepted at every moment of its 24-hour lifetime, whatever was
\* registered after issuance, and verifying a token makes no call to the
\* repository
C13_NoRevocation ==
    /\ BearerRequest =>
         /\ vt.auth.ok <=> ValidBy(vt.header.token, jwt_secret, vt.at)
         /\ vt.calls = <<"decode">>
    /\ (SessionTokenRequest /\ vt.at <= vt.held.at + TokenLifetime)
       => /\ vt.auth.ok
          /\ vt.auth.user_id = vt.held.subject
    /\ vt.fn = "validate_token" => vt.calls = <<"decode">>

\* the registration token of the first user was presented at the last moment
\* of its lifetime, after a second user had registered, and accepted
C13_Witness ==
    /\ SessionTokenRequest
    /\ vt.held.from = "register"
    /\ vt.held.subject = UuidToString(1)
    /\ Cardinality(DOMAIN users) = 2
    /\ \E u \in Stored(users) : u.created_at > vt.held.at
    /\ vt.at = vt.held.at + TokenLifetime
    /\ vt.auth.ok

(***************************************************************************)
(* Properties of the repositories                                          *)
(***************************************************************************)
\* the create call repeats the username or the email of a stored user
RepeatsStored(store, arg) ==
    \E u \in Stored(store) : u.username = arg.username \/ u.email = arg.email

\* C14 as claimed: a create call on the in-memory repository whose username
\* or email is that of a stored user returns an error and stores no record
C14_CreateRejectsDuplicate ==
    (last.op = "create" /\ RepeatsStored(last.pre, last.arg))
    => /\ ~last.mem.ok
       /\ users = last.pre

\* C14 as amended: every create call on the in-memory repository returns
\* Ok and stores one more record, under a new id and with the username and
\* email it was given, also when a stored user has that username or email
C14_CreateAlwaysInserts ==
    last.op = "create"
    => /\ last.mem.ok
       /\ last.mem.user.username = last.arg.username
       /\ last.mem.user.email = last.arg.email
       /\ last.mem.user.is_active
       /\ UuidToString(last.mem.user.id) \notin DOMAIN last.pre
       /\ users = Insert(last.pre, UuidToString(last.mem.user.id), last.mem.user)
       /\ Cardinality(DOMAIN users) = Cardinality(DOMAIN last.pre) + 1

\* a create call that repeated a stored username returned Ok, and two stored
\* users have that username
C14_Witness ==
    /\ last.op = "create"
    /\ \E u \in Stored(last.pre) : u.username = last.arg.username
    /\ last.mem.ok
    /\ Cardinality({k \in DOMAIN users :
                      users[k].username = last.arg.username}) = 2

\* the usernames and emails a store holds
Content(store) == {<<u.username, u.email>> : u \in Stored(store)}

\* the two stores hold the same users: no create has failed on one of them
SameUsers(store, rows) ==
    /\ Content(store) = Content(rows)
    /\ Cardinality(DOMAIN store) = Cardinality(DOMAIN rows)

\* the two backends gave the same found or not-found answer
SameAnswer(m, q) ==
    /\ (m.user = NoUser) <=> (q.user = NoUser)
    /\ m.user.username = q.user.username
    /\ m.user.email = q.user.email

Called(r, fn) == \E i \in DOMAIN req[r].calls : req[r].calls[i] = fn

\* the request passed both availability lookups: neither found a user
PassedLookups(r) ==
    /\ IsRegister(r)
    /\ Called(r, "find_by_email") /\ Called(r, "find_by_username")
    /\ req[r].pc \in {"hash_password", "create", "create_token", "done"}
    /\ req[r].resp # IntoResponse(UserAlreadyExists)

\* two requests ask for the same username or for the same email
SameIdentity(r, q) ==
    \/ req[r].payload.username = req[q].payload.username
    \/ req[r].payload.email = req[q].payload.email

\* C16: on a SQL backend, of two concurrent registrations with the same
\* username or the same email that both pass the lookups at most one
\* stores a user; the other returns an error value, DatabaseError (500
\* "Database error"), and no token
C16_SqlLoserGetsError ==
    /\ \A j, k \in DOMAIN table :
         j # k => /\ table[j].username # table[k].username
                  /\ table[j].email # table[k].email
    /\ \A r, q \in Reqs :
         (/\ r # q /\ Done(r) /\ Done(q)
          /\ PassedLookups(r) /\ PassedLookups(q)
          /\ SameIdentity(r, q))
         => /\ ~(req[r].resp.status = 200 /\ req[q].resp.status = 200)
            /\ \A x \in {r, q} :
                 req[x].resp.status # 200
                 => /\ req[x].resp = IntoResponse(DatabaseError)
                    /\ req[x].resp.status = 500
                    /\ req[x].resp.token = NoToken
                    /\ req[x].user = NoUser
            /\ \A x \in {r, q} :
                 req[x].resp.status = 200
                 => /\ UuidToString(req[x].user.id) \in DOMAIN table
                    /\ table[UuidToString(req[x].user.id)] = req[x].user
                    /\ req[x].resp.token.claims.sub = UuidToString(req[x].user.id)

\* two registrations with one username and two emails both passed the
\* lookups; one stored its user and got a token, the other got 500
C16_Witness ==
    \E r, q \in Reqs :
        /\ r # q /\ Done(r) /\ Done(q)
        /\ PassedLookups(r) /\ PassedLookups(q)
        /\ req[r].payload.username = req[q].payload.username
        /\ req[r].payload.email # req[q].payload.email
        /\ req[r].resp.status = 200
        /\ req[q].resp = IntoResponse(DatabaseError)
        /\ Called(q, "create")
        /\ Cardinality(DOMAIN table) = 1

\* C20: with the in-memory backend, two concurrent registrations with the
\* same username or the same email that both pass their lookups both store a
\* user and both return 200 with a token for it, so that two stored users
\* share the username or the email; and two stored users share one only
\* when both registrations passed their lookups
C20_MemoryAdmitsDuplicates ==
    /\ \A r, q \in Reqs :
         (/\ r # q /\ Done(r) /\ Done(q)
          /\ PassedLookups(r) /\ PassedLookups(q))
         => /\ \A x \in {r, q} :
                 /\ req[x].resp.status = 200
                 /\ req[x].resp.token # NoToken
                 /\ req[x].resp.token.claims.sub = UuidToString(req[x].user.id)
                 /\ UuidToString(req[x].user.id) \in DOMAIN users
                 /\ users[UuidToString(req[x].user.id)] = req[x].user
            /\ req[r].user.id # req[q].user.id
            /\ req[r].payload.username = req[q].payload.username
               => req[r].user.username = req[q].user.username
            /\ req[r].payload.email = req[q].payload.email
               => req[r].user.email = req[q].user.email
    /\ \A j, k \in DOMAIN users :
         (/\ j # k
          /\ \/ users[j].username = users[k].username
             \/ users[j].email = users[k].email)
         => \E r, q \in Reqs :
               /\ r # q
               /\ PassedLookups(r) /\ PassedLookups(q)
               /\ req[r].user = users[j] /\ req[q].user = users[k]

\* two registrations of one username under two e-mail addresses both got a
\* token, and the map holds two users with that username
C20_Witness ==
    \E r, q \in Reqs :
        /\ r # q /\ Done(r) /\ Done(q)
        /\ PassedLookups(r) /\ PassedLookups(q)
        /\ req[r].payload.username = req[q].payload.username
        /\ req[r].payload.email # req[q].payload.email
        /\ req[r].resp.status = 200 /\ req[q].resp.status = 200
        /\ req[r].resp.token # req[q].resp.token
        /\ \E j, k \in DOMAIN users :
              /\ j # k
              /\ users[j].username = req[r].payload.username
              /\ users[k].username = req[r].payload.username

(***************************************************************************)
(* Properties of the validators                                            *)
(***************************************************************************)
\* the rules of the password, with the length counted in characters and the
\* digit taken from 0-9
MeetsPasswordRules(p) ==
    /\ Len(p) >= 8
    /\ HasAny(p, IsUppercase)
    /\ HasAny(p, IsLowercase)
    /\ HasAny(p, Digit)
    /\ HasAny(p, SpecialChars)

\* C17: validate_password succeeds exactly when the password has at least 8
\* characters and an uppercase letter, a lowercase letter, a digit and a
\* character of the special set; when it fails its message names every
\* unmet rule and no rule that is met
C17_PasswordRules ==
    vc.fn = "validate_password"
    => /\ (vc.result = OkUnit) <=> MeetsPasswordRules(vc.input)
       /\ vc.result # OkUnit
          => vc.result = ValidationError(<<"Password must contain: ">>
                            \o Join(PasswordErrors_ByChars(vc.input)))

\* the characters of a string
Chars(s) == {s[k] : k \in 1..Len(s)}

\* a string of 3 to 50 characters over letters, digits, "_" and "-" whose
\* first and last characters are letters or digits
WellFormedUsername(s) ==
    /\ Len(s) >= 3
    /\ Len(s) <= 50
    /\ Chars(s) \subseteq UsernameClass
    /\ s[1] \in Alnum
    /\ s[Len(s)] \in Alnum

\* C18: validate_username succeeds exactly for the strings of 3 to 50
\* characters made of letters, digits, underscore and hyphen whose first and
\* last characters are alphanumeric, and fails with a ValidationError for
\* every other string
C18_UsernameRules ==
    vc.fn = "validate_username"
    => /\ (vc.result = OkUnit) <=> WellFormedUsername(vc.input)
       /\ vc.result # OkUnit => vc.result.kind = "ValidationError"

\* a username of 50 characters with an underscore inside was accepted
C18_Witness ==
    /\ vc.fn = "validate_username"
    /\ Len(vc.input) = 50
    /\ "_" \in Chars(vc.input)
    /\ vc.result = OkUnit

\* the position of the last c of s, 0 when s has none
LastPos(s, c) ==
    IF c \in Chars(s)
    THEN CHOOSE k \in 1..Len(s) :
            s[k] = c /\ \A j \in (k + 1)..Len(s) : s[j] # c
    ELSE 0

\* the parts of an address: what stands before the last "@", between it and
\* the last "." that follows it, and after that "."
HasTld(s) == LastPos(s, ".") > LastPos(s, "@")

LocalPart(s) == SubSeq(s, 1, LastPos(s, "@") - 1)

DomainPart(s) ==
    IF HasTld(s)
    THEN SubSeq(s, LastPos(s, "@") + 1, LastPos(s, ".") - 1)
    ELSE SubSeq(s, LastPos(s, "@") + 1, Len(s))

TldPart(s) ==
    IF HasTld(s) THEN SubSeq(s, LastPos(s, ".") + 1, Len(s)) ELSE <<>>

\* the inputs that the validator has to refuse: no "@", an empty local part,
\* no domain, no TLD, a TLD of fewer than 2 letters, more than 255 characters
BrokenAddress(s) ==
    \/ "@" \notin Chars(s)
    \/ LocalPart(s) = <<>>
    \/ DomainPart(s) = <<>>
    \/ ~HasTld(s)
    \/ Len(TldPart(s)) < 2
    \/ Len(s) > 255

\* local@domain.tld with any characters but "@" in the local part and in the
\* domain, and 2 letters or more in the TLD
FormLocalDomainTld(s) ==
    /\ "@" \in Chars(s)
    /\ HasTld(s)
    /\ LocalPart(s) # <<>>
    /\ "@" \notin Chars(LocalPart(s))
    /\ DomainPart(s) # <<>>
    /\ Len(TldPart(s)) >= 2
    /\ Chars(TldPart(s)) \subseteq Lower \cup Upper

\* the same form with the local part over letters, digits and . _ % + - and
\* the domain over letters, digits, "." and "-"
FormOverClasses(s) ==
    /\ FormLocalDomainTld(s)
    /\ Chars(LocalPart(s)) \subseteq EmailLocalClass
    /\ Chars(DomainPart(s)) \subseteq EmailDomainClass

\* C19: validate_email succeeds for every string local@domain.tld whose TLD
\* has 2 letters or more and whose length is at most 255, whatever the
\* characters of the local part and of the domain, and fails for every input
\* with no "@", an empty local part, no domain, no TLD, a TLD shorter than 2
\* letters or a length above 255
C19_EmailForm ==
    vc.fn = "validate_email"
    => /\ (FormLocalDomainTld(vc.input) /\ Len(vc.input) <= 255)
          => vc.result = OkUnit
       /\ BrokenAddress(vc.input) => vc.result # OkUnit

\* C19: validate_email succeeds for every string local@domain.tld whose
\* local part is made of letters, digits and . _ % + -, whose domain is made
\* of letters, digits, "." and "-", whose TLD has 2 letters or more and whose
\* length is at most 255, and fails for every input with no "@", an empty
\* local part, no domain, no TLD, a TLD shorter than 2 letters or a length
\* above 255
C19_EmailFormOverClasses ==
    vc.fn = "validate_email"
    => /\ (FormOverClasses(vc.input) /\ Len(vc.input) <= 255)
          => vc.result = OkUnit
       /\ BrokenAddress(vc.input)
          => vc.result.kind = "ValidationError"

\* an address of exactly 255 characters, with "-" in its domain, was accepted
C19_Witness ==
    /\ vc.fn = "validate_email"
    /\ Len(vc.input) = 255
    /\ "-" \in Chars(DomainPart(vc.input))
    /\ vc.result = OkUnit

(***************************************************************************)
(* Properties of the mutex of the in-memory repository                     *)
(***************************************************************************)
\* the caller's operation returns in this step
Returns(caller) ==
    IF caller = Direct
    THEN last' # last
    ELSE req[caller].pc \in StoreCalls /\ req'[caller] # req[caller]

\* at most one caller is between lock() and the drop of its guard, the mutex
\* is locked exactly then, and a request that is inside is at one of its
\* repository calls: not hashing, verifying, signing, done or idle
OneInside ==
    /\ Cardinality(mutex.inside) <= 1
    /\ mutex.locked <=> mutex.inside # {}
    /\ \A r \in Reqs : r \in mutex.inside => req[r].pc \in StoreCalls

\* an operation returns with nobody else inside and leaves the mutex free,
\* and the map changes only in the create of the caller that holds the mutex
ReleasedAtReturn ==
    /\ \A c \in Callers :
         Returns(c) => /\ mutex.inside \subseteq {c}
                       /\ mutex' = Unlocked
    /\ users' # users
       => \E r \in Reqs : /\ req[r].pc = "create"
                          /\ Returns(r)
    /\ \A c \in Callers :
         (c \in mutex'.inside /\ c \notin mutex.inside)
         => ~mutex.locked /\ ~Returns(c) /\ users' = users

\* C21: each operation of the in-memory repository runs with the mutex held
\* and releases it when it returns; at most one caller is inside the store at
\* any time, and no request holds the mutex while it hashes or verifies a
\* password, issues a token or has returned
C21_MutexAroundEachOperation == []OneInside /\ [][ReleasedAtReturn]_vars

\* one request is inside create while another waits at its lookup for the
\* mutex and the direct caller has had an answer from find_by_id
C21_Witness ==
    \E r, q \in Reqs :
        /\ r # q
        /\ mutex.inside = {r}
        /\ req[r].pc = "create"
        /\ req[q].pc \in {"find_by_email", "find_by_username"}
        /\ last.op = "find_by_id"

\* the response of a handler: a token with 200, or an error and no token
Answered(r) ==
    /\ Done(r)
    /\ \/ req[r].resp.status = 200 /\ req[r].resp.token # NoToken
       \/ req[r].resp.status # 200 /\ req[r].resp.token = NoToken

StoredAsCreated ==
    /\ \A k \in DOMAIN users :
         /\ UuidToString(users[k].id) = k
         /\ users[k].is_active = TRUE
    /\ \A t \in tokens :
         /\ t.subject \in DOMAIN users
         /\ users[t.subject].username = t.username

\* a step keeps every stored record as it is, removes none, and changes the
\* repository only in the create of a registration; the steps of a login and
\* of the protected route leave it as it is
KeepsRecords ==
    /\ \A k \in DOMAIN users :
         k \in DOMAIN users' /\ users'[k] = users[k]
    /\ Cardinality(DOMAIN users') >= Cardinality(DOMAIN users)
    /\ users' # users
       => \E r \in Reqs : /\ req[r].kind = "register"
                          /\ req[r].pc = "create"
                          /\ req'[r].pc = "create_token"
                          /\ DOMAIN users' = DOMAIN users
                                \cup {UuidToString(req'[r].user.id)}
    /\ (\E r \in Reqs : req[r].kind = "login" /\ req'[r] # req[r])
       => users' = users
    /\ vt' # vt => users' = users

\* C23: a stored user record stays in the repository with its identifier,
\* username, email, password hash and active flag (true) unchanged through
\* every later register, login and protected-route request; login and
\* protected-route requests leave the repository unchanged, and the number of
\* stored users never decreases
C23_RecordsStay == []StoredAsCreated /\ [][KeepsRecords]_vars

\* after a second registration and some time, the protected route accepts
\* the token of the first user, whose record is stored as it was created
C23_Witness ==
    /\ Cardinality(DOMAIN users) = 2
    /\ vt.fn = "from_request_parts"
    /\ vt.auth.ok
    /\ vt.held.subject \in DOMAIN users
    /\ \E k \in DOMAIN users :
         users[k].created_at > users[vt.held.subject].created_at
    /\ now > users[vt.held.subject].created_at
    /\ users[vt.held.subject].username = vt.held.username

=============================================================================
